---- MODULE Spec2Model ----
(***************************************************************************)
(* binary_dataset_splitter.py: a one-shot script that removes the output   *)
(* folders of an earlier run, creates the output tree, optionally renames  *)
(* the samples, copies the augmented samples to train, splits the samples  *)
(* of each class over train/test/validation and writes one CSV per         *)
(* (class, split).                                                          *)
(*                                                                         *)
(* The state is the file system under the working directory, the script's  *)
(* settings, what it printed and the stage the main block has reached.     *)
(* Every function of the script is one action.                             *)
(***************************************************************************)
EXTENDS Integers, Sequences, FiniteSets, TLC

VARIABLES
    settings,   \* TRAIN, TEST, VALIDATION (thousandths), RENAME_DATA,
                \* INCLUDE_AUGMENTED_DATA_IN_TRAIN
    dirs,       \* the output directories that exist, as paths from base_dir
    files,      \* the sample files: records [dir, name, data]
    csv,        \* the files of code/: file name -> rows written
    stdout,     \* what the run printed
    pc,         \* the statement of the main block that runs next
    assigned,   \* split_data's slices: class -> split -> samples copied
    prev,       \* the file names each CSV listed when the previous run ended
    call,       \* a function on its own: what it is called with
    ret         \* ... and what it returned or left

vars == <<settings, dirs, files, csv, stdout, pc, assigned, prev, call, ret>>

(***************************************************************************)
(* Python floats.  TRAIN, TEST and VALIDATION are float literals, and      *)
(* math.floor(TRAIN * total_num_samples) and round(TRAIN+TEST+VALIDATION,2)*)
(* are evaluated in IEEE-754 binary64 arithmetic, so the ratios are        *)
(* modelled bit for bit.  A ratio is written in thousandths (700 stands    *)
(* for the literal 0.7).  A float is a sequence of NLimbs digits in base   *)
(* 2^LimbBits, least significant first, the lowest FracLimbs of them after *)
(* the binary point; binary64 keeps Precision significant bits and rounds  *)
(* to nearest, ties to even.                                               *)
(***************************************************************************)
Precision == 53
LimbBits == 16
FracLimbs == 4
NLimbs == 5
Thousand == 1000
Base == 2^LimbBits

\* Bit idx (1 is the least significant) of x.
Bit(x, idx) ==
    (x[((idx - 1) \div LimbBits) + 1] \div 2^((idx - 1) % LimbBits)) % 2

\* The number of bits of a digit v > 0.
BitLength(v) == CHOOSE n \in 1..LimbBits : 2^(n - 1) <= v /\ v < 2^n

\* The index of the most significant set bit of x, 0 for zero.
TopBit(x) ==
    LET S == {i \in 1..Len(x) : x[i] # 0}
        top == CHOOSE i \in S : \A j \in S : j <= i
    IN  IF S = {} THEN 0 ELSE (top - 1) * LimbBits + BitLength(x[top])

\* Whether a bit of x below bit idx is set.
AnyBelow(x, idx) ==
    LET limb == ((idx - 1) \div LimbBits) + 1
    IN  \/ \E j \in 1..(limb - 1) : x[j] # 0
        \/ x[limb] % 2^((idx - 1) % LimbBits) # 0

\* The exact sum of x and y, digit by digit with carry.
RECURSIVE PlusLimbs(_, _, _, _)
PlusLimbs(x, y, i, carry) ==
    IF i > Len(x) THEN <<>>
    ELSE <<(x[i] + y[i] + carry) % Base>>
             \o PlusLimbs(x, y, i + 1, (x[i] + y[i] + carry) \div Base)

\* The exact product of x and the natural number n.
RECURSIVE TimesInt(_, _, _, _)
TimesInt(x, n, i, carry) ==
    IF i > Len(x) THEN <<>>
    ELSE <<(x[i] * n + carry) % Base>>
             \o TimesInt(x, n, i + 1, (x[i] * n + carry) \div Base)

\* Round-to-nearest-even of the exact value x (plus a nonzero tail below its
\* last bit when sticky) to Precision significant bits.
RoundToPrecision(x, sticky) ==
    LET cut == TopBit(x) - Precision
        limb == (cut \div LimbBits) + 1
        unit == 2^(cut % LimbBits)
        rest == sticky \/ AnyBelow(x, cut)
        kept == [j \in 1..Len(x) |->
                    IF j < limb THEN 0
                    ELSE IF j = limb THEN x[j] - (x[j] % unit)
                    ELSE x[j]]
        ulp == [j \in 1..Len(x) |-> IF j = limb THEN unit ELSE 0]
    IN  IF cut <= 0 THEN x
        ELSE IF Bit(x, cut) = 1 /\ (rest \/ Bit(x, cut + 1) = 1)
        THEN PlusLimbs(kept, ulp, 1, 0)
        ELSE kept

\* The n base-2^LimbBits digits after the point of rem/Thousand, most
\* significant first.
RECURSIVE DivLimbs(_, _)
DivLimbs(rem, n) ==
    IF n = 0 THEN <<>>
    ELSE <<(rem * Base) \div Thousand>> \o DivLimbs((rem * Base) % Thousand, n - 1)

\* What is left of rem/Thousand below its first n digits.
RECURSIVE DivRem(_, _)
DivRem(rem, n) ==
    IF n = 0 THEN rem ELSE DivRem((rem * Base) % Thousand, n - 1)

Reverse(s) == [i \in 1..Len(s) |-> s[Len(s) + 1 - i]]

\* The float a decimal literal of k thousandths denotes: k/1000 correctly
\* rounded.
FloatLiteral(k) ==
    RoundToPrecision(
        Reverse(DivLimbs(k % Thousand, FracLimbs))
            \o <<k \div Thousand>> \o [i \in 1..(NLimbs - FracLimbs - 1) |-> 0],
        DivRem(k % Thousand, FracLimbs) # 0)

\* float * int: the int converts exactly, the product is rounded once.
FloatMul(x, n) == RoundToPrecision(TimesInt(x, n, 1, 0), FALSE)

\* float + float.
FloatAdd(x, y) == RoundToPrecision(PlusLimbs(x, y, 1, 0), FALSE)

\* The integer part of x.
RECURSIVE IntPart(_, _)
IntPart(x, i) ==
    IF i > Len(x) THEN 0 ELSE x[i] + Base * IntPart(x, i + 1)

\* math.floor(x) for a float x >= 0.
Floor(x) == IntPart(x, FracLimbs + 1)

\* round(x, 2) == 1.0: the decimal nearest to x with two digits after the
\* point is 1.00, that is 0.995 < x < 1.005 (no float is one of the two
\* ties), decided on the exact value of 200 * x.
RoundsToOne(x) ==
    LET y == TimesInt(x, 200, 1, 0)
    IN  \/ Floor(y) = 200
        \/ Floor(y) = 199 /\ (\E i \in 1..FracLimbs : y[i] # 0)

(***************************************************************************)
(* Settings and paths.                                                     *)
(***************************************************************************)
DATA_TYPE == "png"

\* The order in which the loops visit the classes and the splits.
Classes == <<"benign", "malign">>
SplitTypes == <<"train", "test", "validation">>
SplitFolders == <<"test", "train", "validation">>

\* os.path.join of a directory and a name; base_dir "./" is the empty path.
Join(dir, s) == dir \o <<s>>
BaseDir == <<>>
DataDir == Join(BaseDir, "split_samples")

\* The dictionary d of the main block.
D == [benign |-> Join(BaseDir, "all_benign"),
      malign |-> Join(BaseDir, "all_malign"),
      code |-> Join(BaseDir, "code"),
      train |-> Join(DataDir, "train"),
      test |-> Join(DataDir, "test"),
      validation |-> Join(DataDir, "validation")]

\* os.path.basename of a sample: its file name, without the directory.
Basename(f) == f.name[1] \o "." \o f.name[2]

\* The name of the CSV of a class and a split inside code/.
CsvFilename(class_type, split_type) == class_type \o "_" \o split_type \o ".csv"

IsPrefix(p, q) == Len(p) <= Len(q) /\ SubSeq(q, 1, Len(p)) = p

Range(s) == {s[i] : i \in 1..Len(s)}

\* glob.glob(dir/*.ext): the files of dir with that extension.  The order of
\* the list glob returns is the directory's, which is arbitrary: Listings.
Glob(fs, dir, ext) == {f \in fs : f.dir = dir /\ f.name[2] = ext}

Listings(S) ==
    {s \in [1..Cardinality(S) -> S] : \A i, j \in 1..Cardinality(S) : s[i] = s[j] => i = j}

\* shutil.copy(sample_location, to_dir): the copy keeps the file name and
\* replaces a file of that name in to_dir.
Copy(fs, f, to_dir) ==
    {g \in fs : ~(g.dir = to_dir /\ g.name = f.name)}
        \cup {[dir |-> to_dir, name |-> f.name, data |-> f.data]}

\* The copies of a list of samples, in the order of the list.
RECURSIVE CopyAll(_, _, _)
CopyAll(fs, samples, to_dir) ==
    IF samples = <<>> THEN fs
    ELSE CopyAll(Copy(fs, Head(samples), to_dir), Tail(samples), to_dir)

(***************************************************************************)
(* The assert of the main block.                                           *)
(***************************************************************************)
SettingsOk(st) ==
    RoundsToOne(FloatAdd(FloatAdd(FloatLiteral(st.TRAIN), FloatLiteral(st.TEST)),
                         FloatLiteral(st.VALIDATION)))

(***************************************************************************)
(* split_data's arithmetic.                                                *)
(***************************************************************************)
\* num, had validation been computed from its ratio like the other two.
NumAllFloored(st, total_num_samples) ==
    [train |-> Floor(FloatMul(FloatLiteral(st.TRAIN), total_num_samples)),
     test |-> Floor(FloatMul(FloatLiteral(st.TEST), total_num_samples)),
     validation |-> Floor(FloatMul(FloatLiteral(st.VALIDATION), total_num_samples))]

\* num: the amount of each type of sample.
Num(st, total_num_samples) ==
    LET train == Floor(FloatMul(FloatLiteral(st.TRAIN), total_num_samples))
        test == Floor(FloatMul(FloatLiteral(st.TEST), total_num_samples))
    IN  [train |-> train, test |-> test,
         validation |-> total_num_samples - (train + test)]

\* start_index: where the for-loop of each split starts.
StartIndex(num) ==
    [train |-> 0, test |-> num.train, validation |-> num.train + num.test]

\* range(si, si + num[split_type]) as a list of 0-based indices.
IndexRange(num, split_type) ==
    LET si == StartIndex(num)[split_type]
        n == IF num[split_type] > 0 THEN num[split_type] ELSE 0
    IN  [k \in 1..n |-> si + k - 1]

\* sample_names[i] raises IndexError for i >= len(sample_names): the reads of
\* a split's loop that succeed are those before the first such index.
GoodReads(num, split_type, total_num_samples) ==
    SelectSeq(IndexRange(num, split_type), LAMBDA i : i < total_num_samples)

SplitRaises(num, split_type, total_num_samples) ==
    Len(GoodReads(num, split_type, total_num_samples)) < Len(IndexRange(num, split_type))

\* The indices the loops over the splits read for one class, up to the first
\* IndexError, which ends the run.
RECURSIVE SplitTrace(_, _, _, _)
SplitTrace(num, total_num_samples, split_types, read) ==
    IF split_types = <<>> THEN [read |-> read, error |-> FALSE]
    ELSE LET split_type == Head(split_types)
             now == [read EXCEPT
                       ![split_type] = GoodReads(num, split_type, total_num_samples)]
         IN  IF SplitRaises(num, split_type, total_num_samples)
             THEN [read |-> now, error |-> TRUE]
             ELSE SplitTrace(num, total_num_samples, Tail(split_types), now)

NothingRead == [split_type \in Range(SplitTypes) |-> <<>>]

(***************************************************************************)
(* The file system the functions work on: the record of the variables that *)
(* hold it, the output, and the exception that ended the run, if any.      *)
(***************************************************************************)
World ==
    [dirs |-> dirs, files |-> files, csv |-> csv, stdout |-> stdout, raised |-> "no"]

Ok(w) == w.raised = "no"

Raise(w, exception) == [w EXCEPT !.raised = exception]

PrintLine(w, line) == [w EXCEPT !.stdout = Append(@, line)]

NoCsv == [name \in {} |-> <<>>]

\* shutil.rmtree(path) of an existing directory: the directory, everything
\* below it and the files in them.
RmTree(w, path) ==
    [w EXCEPT !.dirs = {p \in @ : ~IsPrefix(path, p)},
              !.files = {f \in @ : ~IsPrefix(path, f.dir)},
              !.csv = IF IsPrefix(path, D.code) THEN NoCsv ELSE @]

\* delete_folders_in_dir, had the break been in the try block: it stops after
\* the first folder it removes.
DeleteFirstOnly(w, main_dir, folder_string_list) ==
    IF folder_string_list = <<>> THEN w
    ELSE LET path == Join(main_dir, Head(folder_string_list))
         IN  IF path \notin w.dirs THEN w
             ELSE PrintLine(RmTree(w, path), "Clearing old splits...")

\* delete_folders_in_dir: rmtree raises FileNotFoundError for a missing
\* folder, and the handler leaves the loop.
RECURSIVE DeleteFoldersInDir(_, _, _)
DeleteFoldersInDir(w, main_dir, folder_string_list) ==
    IF folder_string_list = <<>> THEN w
    ELSE LET path == Join(main_dir, Head(folder_string_list))
         IN  IF path \notin w.dirs THEN w
             ELSE DeleteFoldersInDir(PrintLine(RmTree(w, path), "Clearing old splits..."),
                                     main_dir, Tail(folder_string_list))

\* create_folders_in_dir, had its handler left the loop as the handler of
\* delete_folders_in_dir does.
RECURSIVE CreateUntilExists(_, _, _)
CreateUntilExists(w, main_dir, folder_string_list) ==
    IF folder_string_list = <<>> \/ ~Ok(w) THEN w
    ELSE LET s == Head(folder_string_list)
             path == Join(main_dir, s)
         IN  IF path \in w.dirs
             THEN PrintLine(w, "Folder " \o s \o " already exists.")
             ELSE IF main_dir # BaseDir /\ main_dir \notin w.dirs
             THEN Raise(w, "FileNotFoundError")
             ELSE CreateUntilExists([w EXCEPT !.dirs = @ \cup {path}],
                                    main_dir, Tail(folder_string_list))

\* create_folders_in_dir: os.mkdir raises FileExistsError for a folder that
\* exists, and the handler prints and goes on with the next one; it raises
\* FileNotFoundError, which nothing handles, when main_dir is missing.
RECURSIVE CreateFoldersInDir(_, _, _)
CreateFoldersInDir(w, main_dir, folder_string_list) ==
    IF folder_string_list = <<>> \/ ~Ok(w) THEN w
    ELSE LET s == Head(folder_string_list)
             path == Join(main_dir, s)
         IN  CreateFoldersInDir(
                 IF path \in w.dirs
                 THEN PrintLine(w, "Folder " \o s \o " already exists.")
                 ELSE IF main_dir # BaseDir /\ main_dir \notin w.dirs
                 THEN Raise(w, "FileNotFoundError")
                 ELSE [w EXCEPT !.dirs = @ \cup {path}],
                 main_dir, Tail(folder_string_list))

\* The loop of set_up_folder_structure over the split folders.
RECURSIVE CreateClassFolders(_, _)
CreateClassFolders(w, split_folders) ==
    IF split_folders = <<>> THEN w
    ELSE CreateClassFolders(
             CreateFoldersInDir(w, Join(DataDir, Head(split_folders)), Classes),
             Tail(split_folders))

SetUpFolderStructureOn(w) ==
    CreateClassFolders(
        CreateFoldersInDir(
            CreateFoldersInDir(w, BaseDir, <<"code", "split_samples">>),
            DataDir, SplitFolders),
        SplitFolders)

\* os.rename(src, dst) where dst exists and is another file: POSIX replaces
\* dst, Windows raises FileExistsError.
OsNames == {"posix", "nt"}

\* The loop of rename_data over one class's samples, from index i on.  A file
\* renamed to its own name stays.  FileExistsError leaves the loop with the
\* renames made so far, and the handler prints.
RECURSIVE RenameLoop(_, _, _, _)
RenameLoop(w, sample_names, i, os_name) ==
    IF i >= Len(sample_names) \/ ~Ok(w) THEN w
    ELSE LET src == sample_names[i + 1]
             new_name == <<ToString(i), DATA_TYPE>>
             moved == {f \in w.files : f.dir = src.dir /\ f.name = src.name}
             there == {f \in w.files : f.dir = src.dir /\ f.name = new_name}
         IN  IF moved = {} THEN Raise(w, "FileNotFoundError")
             ELSE IF new_name = src.name
             THEN RenameLoop(w, sample_names, i + 1, os_name)
             ELSE IF there # {} /\ os_name = "nt"
             THEN PrintLine(w, "You already have samples with filenames 1 through n.")
             ELSE RenameLoop(
                      [w EXCEPT !.files = (@ \ (moved \cup there)) \cup
                          {[dir |-> f.dir, name |-> new_name, data |-> f.data] : f \in moved}],
                      sample_names, i + 1, os_name)

\* rename_data on the two classes, their samples listed as l_benign, l_malign.
RenameOn(w, l_benign, l_malign, os_name) ==
    LET done == RenameLoop(RenameLoop(w, l_benign, 0, os_name), l_malign, 0, os_name)
    IN  IF Ok(done)
        THEN PrintLine(done, "I renamed your original data to have numbers instead.")
        ELSE done

\* The loop of copy_augmented_data_to_train for one class.
CopyAugmented(w, class_type, aug_sample_names) ==
    PrintLine(
        [w EXCEPT !.files = CopyAll(@, aug_sample_names, Join(D.train, class_type))],
        "Moved " \o ToString(Len(aug_sample_names)) \o " augmented samples of "
            \o class_type \o " to train")

\* copy_augmented_data_to_train on the two classes.
AugmentOn(w, l_benign, l_malign) ==
    CopyAugmented(CopyAugmented(w, "benign", l_benign), "malign", l_malign)

\* The samples a split's loop copies: sample_names at the indices it reads.
Slice(sample_names, indices) ==
    [k \in 1..Len(indices) |-> sample_names[indices[k] + 1]]

\* The loops of split_data over the splits for one class, sample_names being
\* the shuffled list.  An IndexError ends the run where it is raised.
RECURSIVE SplitLoop(_, _, _, _, _)
SplitLoop(w, class_type, sample_names, num, split_types) ==
    IF split_types = <<>> \/ ~Ok(w) THEN w
    ELSE LET split_type == Head(split_types)
             good == GoodReads(num, split_type, Len(sample_names))
             copied == [w EXCEPT !.files =
                          CopyAll(@, Slice(sample_names, good), Join(D[split_type], class_type))]
         IN  SplitLoop(
                 IF SplitRaises(num, split_type, Len(sample_names))
                 THEN Raise(copied, "IndexError")
                 ELSE PrintLine(copied, "Copied " \o ToString(num[split_type])
                          \o " samples of " \o class_type \o " to " \o split_type),
                 class_type, sample_names, num, Tail(split_types))

SplitClass(w, st, class_type, sample_names) ==
    IF Ok(w)
    THEN SplitLoop(w, class_type, sample_names, Num(st, Len(sample_names)), SplitTypes)
    ELSE w

\* split_data on the two classes, l_benign and l_malign being the shuffled
\* lists.
SplitOn(w, st, l_benign, l_malign) ==
    SplitClass(SplitClass(w, st, "benign", l_benign), st, "malign", l_malign)

\* What split_data copies for one class: split -> the samples of its slice.
Slices(st, sample_names) ==
    LET t == SplitTrace(Num(st, Len(sample_names)), Len(sample_names), SplitTypes,
                        NothingRead)
    IN  [split_type \in Range(SplitTypes) |-> Range(Slice(sample_names, t.read[split_type]))]

NoSlices == [split_type \in Range(SplitTypes) |-> {}]
NothingAssigned == [class_type \in Range(Classes) |-> NoSlices]

\* A row of a CSV written with quoting=csv.QUOTE_ALL: its fields, each quoted.
Row(fields) == [k \in 1..Len(fields) |-> [text |-> fields[k], quoted |-> TRUE]]

\* A sample's path as glob returns it.
RECURSIVE PathString(_, _)
PathString(dir, filename) ==
    IF dir = <<>> THEN filename
    ELSE Head(dir) \o "/" \o PathString(Tail(dir), filename)

\* The rows, had the sample's path been written instead of its basename.
RowsOfPaths(sample_names) ==
    [k \in 1..Len(sample_names) |->
        Row(<<"./" \o PathString(sample_names[k].dir, Basename(sample_names[k]))>>)]

\* The rows generate_csv_files writes for one folder, listed in this order.
Rows(sample_names) == [k \in 1..Len(sample_names) |-> Row(<<Basename(sample_names[k])>>)]

DestDir(split_type, class_type) == Join(D[split_type], class_type)

\* The (split, class) pairs in the order generate_csv_files visits them.
Pairs ==
    <<<<"train", "benign">>, <<"train", "malign">>, <<"test", "benign">>,
      <<"test", "malign">>, <<"validation", "benign">>, <<"validation", "malign">>>>

\* generate_csv_files, listing[p] being what glob returns for pair p: each CSV
\* is opened with 'w' and gets one row per listed sample.
RECURSIVE GenerateOn(_, _, _)
GenerateOn(w, listing, pairs) ==
    IF pairs = <<>> THEN w
    ELSE LET split_type == Head(pairs)[1]
             class_type == Head(pairs)[2]
             csv_filename == CsvFilename(class_type, split_type)
             written == [name \in DOMAIN w.csv \cup {csv_filename} |->
                            IF name = csv_filename THEN Rows(listing[Head(pairs)])
                            ELSE w.csv[name]]
         IN  GenerateOn(
                 PrintLine([w EXCEPT !.csv = written],
                           "Wrote CSV file for " \o class_type \o " : " \o split_type),
                 listing, Tail(pairs))

\* The statement of the main block that follows set_up_folder_structure and
\* the one that follows rename_data: the two ifs on the settings.
AfterRename(st) ==
    IF st.INCLUDE_AUGMENTED_DATA_IN_TRAIN THEN "copy_augmented_data_to_train"
    ELSE "split_data"

AfterSetUp(st) == IF st.RENAME_DATA THEN "rename_data" ELSE AfterRename(st)

\* A statement leaves the world w: the run goes on with the next statement,
\* or ends with the exception raised.
Leave(w, next) ==
    /\ dirs' = w.dirs
    /\ files' = w.files
    /\ csv' = w.csv
    /\ stdout' = w.stdout
    /\ pc' = IF Ok(w) THEN next ELSE w.raised

(***************************************************************************)
(* The main block, one action per statement.                               *)
(***************************************************************************)
\* The main block without the assert (python -O strips it).
CheckNothing ==
    /\ pc = "assert"
    /\ pc' = "remove_split_folders"
    /\ UNCHANGED <<settings, dirs, files, csv, stdout, assigned, prev, call, ret>>

\* assert round(TRAIN+TEST+VALIDATION, 2) == 1.0
CheckSettings ==
    /\ pc = "assert"
    /\ pc' = IF SettingsOk(settings) THEN "remove_split_folders" ELSE "AssertionError"
    /\ UNCHANGED <<settings, dirs, files, csv, stdout, assigned, prev, call, ret>>

RemoveSplitFolders ==
    /\ pc = "remove_split_folders"
    /\ Leave(DeleteFoldersInDir(World, BaseDir, <<"code", "split_samples">>),
             "set_up_folder_structure")
    /\ UNCHANGED <<settings, assigned, prev, call, ret>>

SetUpFolderStructure ==
    /\ pc = "set_up_folder_structure"
    /\ Leave(SetUpFolderStructureOn(World), AfterSetUp(settings))
    /\ UNCHANGED <<settings, assigned, prev, call, ret>>

RenameData ==
    /\ pc = "rename_data"
    /\ \E os_name \in OsNames,
          l_benign \in Listings(Glob(files, D.benign, DATA_TYPE)),
          l_malign \in Listings(Glob(files, D.malign, DATA_TYPE)) :
            Leave(RenameOn(World, l_benign, l_malign, os_name), AfterRename(settings))
    /\ UNCHANGED <<settings, assigned, prev, call, ret>>

CopyAugmentedDataToTrain ==
    /\ pc = "copy_augmented_data_to_train"
    /\ \E l_benign \in Listings(Glob(files, Join(D.benign, "augmented"), DATA_TYPE)),
          l_malign \in Listings(Glob(files, Join(D.malign, "augmented"), DATA_TYPE)) :
            Leave(AugmentOn(World, l_benign, l_malign), "split_data")
    /\ UNCHANGED <<settings, assigned, prev, call, ret>>

\* glob's order does not matter here: random.shuffle makes the list any
\* permutation of the samples.
SplitData ==
    /\ pc = "split_data"
    /\ \E l_benign \in Listings(Glob(files, D.benign, DATA_TYPE)),
          l_malign \in Listings(Glob(files, D.malign, DATA_TYPE)) :
            /\ Leave(SplitOn(World, settings, l_benign, l_malign), "generate_csv_files")
            /\ assigned' = [benign |-> Slices(settings, l_benign),
                            malign |-> IF Ok(SplitClass(World, settings, "benign", l_benign))
                                       THEN Slices(settings, l_malign) ELSE NoSlices]
    /\ UNCHANGED <<settings, prev, call, ret>>

GenerateCsvFiles ==
    /\ pc = "generate_csv_files"
    /\ \E l1 \in Listings(Glob(files, DestDir("train", "benign"), DATA_TYPE)),
          l2 \in Listings(Glob(files, DestDir("train", "malign"), DATA_TYPE)),
          l3 \in Listings(Glob(files, DestDir("test", "benign"), DATA_TYPE)),
          l4 \in Listings(Glob(files, DestDir("test", "malign"), DATA_TYPE)),
          l5 \in Listings(Glob(files, DestDir("validation", "benign"), DATA_TYPE)),
          l6 \in Listings(Glob(files, DestDir("validation", "malign"), DATA_TYPE)) :
            LET ls == <<l1, l2, l3, l4, l5, l6>>
                listing == [p \in Range(Pairs) |->
                              ls[CHOOSE k \in 1..Len(Pairs) : Pairs[k] = p]]
            IN  Leave(GenerateOn(World, listing, Pairs), "exit")
    /\ UNCHANGED <<settings, assigned, prev, call, ret>>

\* The file names a CSV lists.
Listed(rows) == {rows[k][1].text : k \in 1..Len(rows)}

\* The script is started again in the same working directory.
RunAgain ==
    /\ pc = "exit"
    /\ prev' = [name \in DOMAIN csv |-> Listed(csv[name])]
    /\ pc' = "assert"
    /\ stdout' = <<>>
    /\ assigned' = NothingAssigned
    /\ UNCHANGED <<settings, dirs, files, csv, call, ret>>

(***************************************************************************)
(* The working directory and the settings the script is started with.      *)
(***************************************************************************)
MaxSamples == 2
MaxAugmented == 1

\* The file names the samples may have.
SampleNames ==
    [benign |-> {<<"0", "png">>, <<"1", "png">>, <<"a", "png">>, <<"a", "txt">>},
     malign |-> {<<"0", "png">>, <<"a", "png">>}]
AugmentedNames ==
    [benign |-> {<<"0", "png">>, <<"b", "png">>},
     malign |-> {<<"0", "png">>}]

\* A sample: where it is, and data, which tells its content from any other's.
Sample(class_type, origin, name) ==
    [dir |-> IF origin = "main" THEN D[class_type] ELSE Join(D[class_type], "augmented"),
     name |-> name,
     data |-> <<class_type, origin, name[1], name[2]>>]

MainUniverse ==
    UNION {{Sample(c, "main", n) : n \in SampleNames[c]} : c \in Range(Classes)}
AugmentedUniverse ==
    UNION {{Sample(c, "aug", n) : n \in AugmentedNames[c]} : c \in Range(Classes)}

Ratios == {<<700, 200, 100>>, <<500, 500, 0>>, <<700, 200, 200>>}

SettingsSpace ==
    {[TRAIN |-> r[1], TEST |-> r[2], VALIDATION |-> r[3],
      RENAME_DATA |-> rn, INCLUDE_AUGMENTED_DATA_IN_TRAIN |-> au] :
        r \in Ratios, rn \in BOOLEAN, au \in BOOLEAN}

\* The output tree.
OutputTree ==
    {D.code, DataDir} \cup {D[s] : s \in Range(SplitTypes)}
        \cup {DestDir(s, c) : s \in Range(SplitTypes), c \in Range(Classes)}

IsOutput(f) == IsPrefix(DataDir, f.dir)

\* What an earlier run with these settings over these samples may have left
\* in split_samples: nothing (no samples then), or its copies.
PreviousOutputs(src, st) ==
    LET w == [dirs |-> OutputTree, files |-> src, csv |-> NoCsv, stdout |-> <<>>,
              raised |-> "no"]
        a == IF st.INCLUDE_AUGMENTED_DATA_IN_TRAIN
             THEN AugmentOn(w,
                    CHOOSE l \in Listings(Glob(src, Join(D.benign, "augmented"), DATA_TYPE)) : TRUE,
                    CHOOSE l \in Listings(Glob(src, Join(D.malign, "augmented"), DATA_TYPE)) : TRUE)
             ELSE w
    IN  {{}} \cup
        (IF SettingsOk(st)
         THEN {{f \in SplitOn(a, st, l_benign, l_malign).files : IsOutput(f)} :
                  l_benign \in Listings(Glob(src, D.benign, DATA_TYPE)),
                  l_malign \in Listings(Glob(src, D.malign, DATA_TYPE))}
         ELSE {})

\* The CSVs that earlier run wrote.
PreviousCsv(old) ==
    [name \in {CsvFilename(p[2], p[1]) : p \in Range(Pairs)} |->
        LET p == CHOOSE q \in Range(Pairs) : CsvFilename(q[2], q[1]) = name
        IN  Rows(CHOOSE l \in Listings(Glob(old, DestDir(p[1], p[2]), DATA_TYPE)) : TRUE)]

NoPrev == [name \in {} |-> {}]

Started ==
    /\ stdout = <<>>
    /\ pc = "assert"
    /\ assigned = NothingAssigned
    /\ prev = NoPrev
    /\ call = 0
    /\ ret = <<>>

\* code and split_samples each exist or not when the script starts;
\* split_samples holds what an earlier run left.
Init ==
    /\ settings \in SettingsSpace
    /\ \E main \in SUBSET MainUniverse, aug \in SUBSET AugmentedUniverse,
          code_exists \in BOOLEAN, split_exists \in BOOLEAN :
            /\ Cardinality(main) <= MaxSamples
            /\ Cardinality(aug) <= MaxAugmented
            /\ \E old \in PreviousOutputs(main \cup aug, settings) :
                 /\ split_exists \/ old = {}
                 /\ files = main \cup aug \cup (IF split_exists THEN old ELSE {})
                 /\ dirs = (IF code_exists THEN {D.code} ELSE {})
                             \cup (IF split_exists THEN OutputTree \ {D.code} ELSE {})
                 /\ csv = IF code_exists THEN PreviousCsv(old) ELSE NoCsv
    /\ Started

Next ==
    \/ CheckSettings
    \/ RemoveSplitFolders
    \/ SetUpFolderStructure
    \/ RenameData
    \/ CopyAugmentedDataToTrain
    \/ SplitData
    \/ GenerateCsvFiles

Spec == Init /\ [][Next]_vars

\* The script run again and again in the same working directory.
NextAgain == Next \/ RunAgain

SpecAgain == Init /\ [][NextAgain]_vars

(***************************************************************************)
(* split_data's arithmetic on its own, for any number of samples of a      *)
(* class, with settings that passed the assert.                            *)
(***************************************************************************)
MaxN == 250

SplitRatios ==
    {<<700, 200, 100>>, <<500, 500, 0>>, <<333, 333, 334>>, <<100, 100, 800>>,
     <<700, 304, 0>>, <<700, 200, 96>>}

InitSplit ==
    /\ settings \in {st \in [TRAIN : {r[1] : r \in SplitRatios},
                              TEST : {r[2] : r \in SplitRatios},
                              VALIDATION : {r[3] : r \in SplitRatios},
                              RENAME_DATA : {FALSE},
                              INCLUDE_AUGMENTED_DATA_IN_TRAIN : {FALSE}] :
                        /\ <<st.TRAIN, st.TEST, st.VALIDATION>> \in SplitRatios
                        /\ SettingsOk(st)}
    /\ call \in 0..MaxN
    /\ ret = <<>>
    /\ pc = "split_data"
    /\ dirs = {}
    /\ files = {}
    /\ csv = NoCsv
    /\ stdout = <<>>
    /\ assigned = NothingAssigned
    /\ prev = NoPrev

\* Lines 163-195 for one class with `call` samples.
SplitCall ==
    /\ pc = "split_data"
    /\ LET num == Num(settings, call)
           t == SplitTrace(num, call, SplitTypes, NothingRead)
       IN  /\ ret' = [num |-> num, start_index |-> StartIndex(num), read |-> t.read]
           /\ pc' = IF t.error THEN "IndexError" ELSE "return"
    /\ UNCHANGED <<settings, dirs, files, csv, stdout, assigned, prev, call>>

SpecSplit == InitSplit /\ [][SplitCall]_vars

(***************************************************************************)
(* set_up_folder_structure on its own, called twice in a row in a working  *)
(* directory that holds any part of the output tree.                       *)
(***************************************************************************)
\* Files an output folder may hold before the call.
Leftovers ==
    {[dir |-> DestDir("train", "benign"), name |-> <<"a", "png">>,
      data |-> <<"benign", "main", "a", "png">>],
     [dir |-> DestDir("test", "malign"), name |-> <<"0", "png">>,
      data |-> <<"malign", "main", "0", "png">>]}

InitScaffold ==
    /\ settings \in {st \in SettingsSpace : SettingsOk(st) /\ ~st.RENAME_DATA
                                               /\ st.INCLUDE_AUGMENTED_DATA_IN_TRAIN}
    /\ dirs \in {ds \in SUBSET OutputTree :
                    \A p \in ds : Len(p) > 1 => SubSeq(p, 1, Len(p) - 1) \in ds}
    /\ files \in {fs \in SUBSET Leftovers : \A f \in fs : f.dir \in dirs}
    /\ csv \in {NoCsv} \cup (IF D.code \in dirs THEN {PreviousCsv(files)} ELSE {})
    /\ stdout = <<>>
    /\ pc = "set_up_folder_structure"
    /\ assigned = NothingAssigned
    /\ prev = NoPrev
    /\ call = [dirs |-> dirs, files |-> files, csv |-> csv]
    /\ ret = <<>>

ScaffoldOnce ==
    /\ pc = "set_up_folder_structure"
    /\ Leave(SetUpFolderStructureOn(World), "set_up_folder_structure again")
    /\ ret' = [dirs |-> dirs', files |-> files', csv |-> csv', stdout |-> stdout']
    /\ UNCHANGED <<settings, assigned, prev, call>>

ScaffoldAgain ==
    /\ pc = "set_up_folder_structure again"
    /\ Leave(SetUpFolderStructureOn(World), "return")
    /\ UNCHANGED <<settings, assigned, prev, call, ret>>

NextScaffold == ScaffoldOnce \/ ScaffoldAgain

SpecScaffold == InitScaffold /\ [][NextScaffold]_vars

(***************************************************************************)
(* Properties.                                                             *)
(***************************************************************************)
FileName(f) == f.name[1] \o "." \o f.name[2]

\* The samples of a class, its augmented samples, and what a destination
\* folder holds.
ClassFiles(class_type) ==
    {f \in files : f.dir = D[class_type] /\ f.name[2] = DATA_TYPE}
AugFiles(class_type) ==
    {f \in files : f.dir = Join(D[class_type], "augmented") /\ f.name[2] = DATA_TYPE}
Present(split_type, class_type) ==
    {f \in files : f.dir = DestDir(split_type, class_type) /\ f.name[2] = DATA_TYPE}

\* floor(n * k/1000) in exact arithmetic.
ExactFloor(k, n) == (k * n) \div Thousand

SumsToOne == settings.TRAIN + settings.TEST + settings.VALIDATION = Thousand

Returned == pc \in {"return", "IndexError"}

\* The indices a, a+1, ..., b-1.
Iota(a, b) == [k \in 1..(b - a) |-> a + k - 1]

\* The counts add up to N and the three index ranges are [0, train),
\* [train, train+test), [train+test, N): every index is read once.
CountsPartition ==
    /\ ret.num.validation = call - ret.num.train - ret.num.test
    /\ ret.num.train + ret.num.test + ret.num.validation = call
    /\ ret.num.train >= 0 /\ ret.num.test >= 0 /\ ret.num.validation >= 0
    /\ pc = "return"
    /\ ret.read.train = Iota(0, ret.num.train)
    /\ ret.read.test = Iota(ret.num.train, ret.num.train + ret.num.test)
    /\ ret.read.validation = Iota(ret.num.train + ret.num.test, call)
    /\ ret.read.train \o ret.read.test \o ret.read.validation = Iota(0, call)

CountsExamples ==
    <<settings.TRAIN, settings.TEST, settings.VALIDATION>> = <<700, 200, 100>> =>
        /\ call = 10 => ret.num = [train |-> 7, test |-> 2, validation |-> 1]
        /\ call = 3 => ret.num = [train |-> 2, test |-> 0, validation |-> 1]
        /\ call = 0 => /\ ret.num = [train |-> 0, test |-> 0, validation |-> 0]
                       /\ ret.read = NothingRead

\* C1 as stated: for ratios summing to 1.0 and N samples, train_count is
\* floor(N*train) and test_count is floor(N*test), validation_count is the
\* rest, the counts add up to N and the index ranges give every sample to
\* exactly one split; N=10 gives 7/2/1, N=3 gives 2/0/1, N=0 copies nothing.
C1Stated ==
    Returned /\ SumsToOne =>
        /\ ret.num.train = ExactFloor(settings.TRAIN, call)
        /\ ret.num.test = ExactFloor(settings.TEST, call)
        /\ CountsPartition
        /\ CountsExamples

\* C1 amended: for ratios summing to 1.0 and N samples, train_count and
\* test_count are the floors of the floating-point products, each either
\* floor(N*ratio) or one less; validation_count is the rest, the counts add
\* up to N and the index ranges give every sample to exactly one split;
\* N=10 gives 7/2/1, N=3 gives 2/0/1, N=0 copies nothing.
C1Amended ==
    Returned /\ SumsToOne =>
        /\ ret.num.train \in {ExactFloor(settings.TRAIN, call) - 1,
                              ExactFloor(settings.TRAIN, call)}
        /\ ret.num.test \in {ExactFloor(settings.TEST, call) - 1,
                             ExactFloor(settings.TEST, call)}
        /\ CountsPartition
        /\ CountsExamples

\* 0.7 * 90 is 62.99999999999999 in floating point: 62 samples go to train.
C1Witness ==
    /\ pc = "return"
    /\ SumsToOne
    /\ settings.TRAIN = 700
    /\ call = 90
    /\ ret.num = [train |-> 62, test |-> 18, validation |-> 10]

\* C2 as stated: after a run with augmentation enabled, every main file name
\* of a class is in exactly one of the class's three destination folders,
\* and no file from the augmented folder is in test or validation.
C2Stated ==
    pc = "exit" /\ settings.INCLUDE_AUGMENTED_DATA_IN_TRAIN =>
        \A class_type \in Range(Classes) :
            /\ \A f \in ClassFiles(class_type) :
                 Cardinality({split_type \in Range(SplitTypes) :
                                \E g \in Present(split_type, class_type) :
                                    g.name = f.name}) = 1
            /\ \A split_type \in {"test", "validation"} :
                 \A g \in Present(split_type, class_type) : g.data[2] # "aug"

\* C3 as stated: after remove_split_folders neither code nor split_samples
\* exists, whichever of the two existed before, and no error is raised.
C3Stated ==
    /\ pc \notin {"FileNotFoundError"}
    /\ pc = "set_up_folder_structure" => D.code \notin dirs /\ DataDir \notin dirs

\* The statements of the main block in their order.
StageOrder ==
    /\ pc = "assert" => pc' \in {"remove_split_folders", "AssertionError"}
    /\ pc = "remove_split_folders" => pc' = "set_up_folder_structure"
    /\ pc = "set_up_folder_structure" =>
         pc' = IF settings.RENAME_DATA THEN "rename_data"
               ELSE IF settings.INCLUDE_AUGMENTED_DATA_IN_TRAIN
               THEN "copy_augmented_data_to_train" ELSE "split_data"
    /\ pc = "rename_data" =>
         pc' = IF settings.INCLUDE_AUGMENTED_DATA_IN_TRAIN
               THEN "copy_augmented_data_to_train" ELSE "split_data"
    /\ pc = "copy_augmented_data_to_train" => pc' = "split_data"
    /\ pc = "split_data" => pc' = "generate_csv_files"
    /\ pc = "generate_csv_files" => pc' = "exit"

\* At the end of a run with augmentation: a name shared by a sample assigned
\* to train and an augmented sample is the main sample's file in train, and
\* train holds |train samples| + |augmented samples| - |shared names| files.
TrainHolds ==
    pc = "exit" /\ settings.INCLUDE_AUGMENTED_DATA_IN_TRAIN =>
        \A class_type \in Range(Classes) :
            LET train == assigned[class_type].train
                shared == {f \in train : \E a \in AugFiles(class_type) : a.name = f.name}
            IN  /\ \A f \in shared :
                     \E g \in Present("train", class_type) :
                         g.name = f.name /\ g.data = f.data
                /\ Cardinality(Present("train", class_type)) =
                     Cardinality(train) + Cardinality(AugFiles(class_type))
                        - Cardinality(shared)

\* C4 as stated: the stages run in the order reset, scaffold, optional
\* rename, optional augment copy, split copy, manifest; so a name shared by
\* an augmented file and a main file assigned to train is the main file in
\* train at the end, and train holds |train| + |augmented| - |collisions|.
C4Stated == [][StageOrder]_vars /\ []TrainHolds

\* C5: after generate_csv_files each of the six manifests has one row per
\* file with the extension in its destination folder, the row being the
\* file's basename as one quoted field: same set, same count.
C5Manifest ==
    pc = "exit" =>
        \A p \in Range(Pairs) :
            LET csv_filename == CsvFilename(p[2], p[1])
            IN  /\ csv_filename \in DOMAIN csv
                /\ Len(csv[csv_filename]) = Cardinality(Present(p[1], p[2]))
                /\ Range(csv[csv_filename]) =
                     {<<[text |-> FileName(f), quoted |-> TRUE]>> : f \in Present(p[1], p[2])}

\* An augmented sample and a main sample are in train/benign and both are
\* rows of benign_train.csv.
C5Witness ==
    /\ pc = "exit"
    /\ "benign_train.csv" \in DOMAIN csv
    /\ Len(csv["benign_train.csv"]) = 2
    /\ \E f \in Present("train", "benign") :
         /\ f.data[2] = "aug"
         /\ FileName(f) \in Listed(csv["benign_train.csv"])

\* C6 as stated: rename_data leaves each class's N samples named 0.<ext> ..
\* (N-1).<ext> and loses none: the contents are those from before, whatever
\* the names were.
C6Stated ==
    [][pc = "rename_data" =>
        \A class_type \in Range(Classes) :
            LET before == ClassFiles(class_type)
                after == {f \in files' : f.dir = D[class_type] /\ f.name[2] = DATA_TYPE}
            IN  /\ {f.data : f \in after} = {f.data : f \in before}
                /\ Cardinality(after) = Cardinality(before)
                /\ {f.name : f \in after} =
                     {<<ToString(i), DATA_TYPE>> : i \in 0..(Cardinality(before) - 1)}]_vars

\* The file names the three manifests of a class list, in csv and in prev.
ListedNow(class_type) ==
    UNION {Listed(csv[CsvFilename(class_type, split_type)]) : split_type \in Range(SplitTypes)}
ListedBefore(class_type) ==
    UNION {prev[CsvFilename(class_type, split_type)] : split_type \in Range(SplitTypes)}

\* The file names of a class's samples, the augmented ones included when
\* they are copied.
SourceNames(class_type) ==
    {FileName(f) : f \in ClassFiles(class_type)} \cup
        (IF settings.INCLUDE_AUGMENTED_DATA_IN_TRAIN
         THEN {FileName(f) : f \in AugFiles(class_type)} ELSE {})

SecondRunEnded == DOMAIN prev # {} /\ pc = "exit"

\* C7 as stated: after two runs on the same samples each of the six
\* manifests lists the same set of file names as after the first run.
C7Stated ==
    SecondRunEnded =>
        \A csv_filename \in DOMAIN csv : Listed(csv[csv_filename]) = prev[csv_filename]

\* C7 amended: after two runs on the same samples without renaming, the
\* three manifests of a class together listed every sample's file name after
\* the first run and list exactly the samples' file names after the second;
\* test and validation list disjoint names, as many as split_data counted.
\* Which manifest lists a name is drawn anew in each run.
C7Amended ==
    SecondRunEnded /\ ~settings.RENAME_DATA =>
        \A class_type \in Range(Classes) :
            LET num == Num(settings, Cardinality(ClassFiles(class_type)))
                test == csv[CsvFilename(class_type, "test")]
                validation == csv[CsvFilename(class_type, "validation")]
            IN  /\ SourceNames(class_type) \subseteq ListedBefore(class_type)
                /\ ListedNow(class_type) = SourceNames(class_type)
                /\ Listed(test) \cap Listed(validation) = {}
                /\ Len(test) = num.test
                /\ Len(validation) = num.validation

\* The second run put a sample in another split than the first.
C7Witness ==
    /\ SecondRunEnded
    /\ ~settings.RENAME_DATA
    /\ \E csv_filename \in DOMAIN csv : Listed(csv[csv_filename]) # prev[csv_filename]

\* C8: with ratios whose sum does not round to 1.0 the run ends at the
\* assert and nothing follows: no directory, sample or CSV changes.
C8Abort ==
    [][/\ pc = "assert" /\ ~SettingsOk(settings) =>
            pc' = "AssertionError" /\ UNCHANGED <<dirs, files, csv>>
       /\ pc # "AssertionError"]_vars

\* The assert failed in a directory that holds samples and old output.
C8Witness ==
    /\ pc = "AssertionError"
    /\ ~SettingsOk(settings)
    /\ files # {}
    /\ DataDir \in dirs

\* The folders of the output tree in the order set_up_folder_structure makes
\* them, and the lines printed for those that exist.
ScaffoldOrder ==
    <<D.code, DataDir>> \o [k \in 1..Len(SplitFolders) |-> Join(DataDir, SplitFolders[k])]
        \o [k \in 1..(Len(SplitFolders) * Len(Classes)) |->
              Join(Join(DataDir, SplitFolders[((k - 1) \div Len(Classes)) + 1]),
                   Classes[((k - 1) % Len(Classes)) + 1])]

AlreadyExists(ds) ==
    LET there == SelectSeq(ScaffoldOrder, LAMBDA p : p \in ds)
    IN  [k \in 1..Len(there) |->
            "Folder " \o there[k][Len(there[k])] \o " already exists."]

\* C9: set_up_folder_structure twice in a row raises no error and leaves
\* the directories it leaves when run once, code, split_samples and
\* split_samples/{train,test,validation}/{benign,malign}; a directory that
\* exists is logged and skipped and what it holds stays.
C9Idempotent ==
    /\ pc \in {"set_up_folder_structure", "set_up_folder_structure again", "return"}
    /\ pc # "set_up_folder_structure" =>
         /\ ret.dirs = OutputTree
         /\ ret.files = call.files
         /\ ret.csv = call.csv
         /\ ret.stdout = AlreadyExists(call.dirs)
    /\ pc = "return" =>
         /\ dirs = ret.dirs
         /\ files = ret.files
         /\ csv = ret.csv
         /\ stdout = ret.stdout \o AlreadyExists(OutputTree)

\* Both calls returned in a directory that held a part of the tree with a
\* file in it.
C9Witness ==
    /\ pc = "return"
    /\ call.files # {}
    /\ D.code \notin call.dirs
    /\ call.dirs # OutputTree \ {D.code}

\* C10 as stated: for ratios that pass the assert and any N, validation_count
\* is not negative, train_count + test_count is at most N, every index read
\* is below N and no IndexError ends the run.
C10Stated ==
    Returned =>
        /\ ret.num.validation >= 0
        /\ ret.num.train + ret.num.test <= call
        /\ \A split_type \in Range(SplitTypes) :
             \A k \in 1..Len(IndexRange(ret.num, split_type)) :
                 IndexRange(ret.num, split_type)[k] < call
        /\ pc # "IndexError"

====
